---------------------------- MODULE Spec2Model ----------------------------
(***************************************************************************)
(* A model of examples/react-websocket/src/server/main.ts: the Express     *)
(* routes of the demo backend (document metadata CRUD, token issuing,      *)
(* permission queries, update ingest) over the JSONDatabase store.         *)
(*                                                                         *)
(* The store class (./db.ts) is not part of the sources at hand; its four  *)
(* methods are modelled from section 4.1 of the specification.             *)
(*                                                                         *)
(* A nullable result (T | null) is a sequence of length at most one:       *)
(* << >> is null and <<v>> is the value v.                                 *)
(***************************************************************************)
EXTENDS Integers, Sequences, FiniteSets, TLC

VARIABLES
    db,      \* the JSONDatabase: the list of DocMeta records it holds
    clock,   \* what Date.now() returns
    res,     \* the last request handled by a synchronous-to-the-store route, with its response
    pre,     \* history: db as it was when the request of res arrived
    lastOp,  \* history: per id, the last create (201) or delete (200) answered
    tokenReq,\* the /auth/token request in flight (awaiting jwt.encodeJwt)
    ydoc     \* the /ydoc/:room request in flight

vars == <<db, clock, res, pre, lastOp, tokenReq, ydoc>>

---------------------------------------------------------------------------
(* Bounds and input domains *)

MaxClock == 1

Ids == {"doc1", "doc2"}
Users == {"user1", "user2"}
Titles == {"a", "b"}
CreatedAts == {"t0", "t1"}

DocMetas == [id : Ids, title : Titles, createdAt : CreatedAts]

\* What req.body.title can be in a PATCH: a string, a non-string, or absent.
TitleInputs ==
    [type : {"string"}, val : Titles]
        \cup {[type |-> "number", val |-> "7"], [type |-> "undefined", val |-> ""]}

appName == "blocksuite-example"

HourMs == 1000 * 60 * 60

---------------------------------------------------------------------------
(* JSONDatabase (./db.ts), from section 4.1 of the specification *)

Null == << >>

Some(v) == <<v>>

IdsOf(docs) == {docs[i].id : i \in 1..Len(docs)}

IndexOf(docs, id) == CHOOSE i \in 1..Len(docs) : docs[i].id = id

RemoveAt(docs, k) ==
    [i \in 1..(Len(docs) - 1) |-> IF i < k THEN docs[i] ELSE docs[i + 1]]

\* Object.assign(doc, partial): the fields of partial overwrite those of doc.
Merge(doc, partial) ==
    [f \in DOMAIN doc |-> IF f \in DOMAIN partial THEN partial[f] ELSE doc[f]]

\* getAll() -> list of DocMeta
getDocMetas(docs) == docs

\* get(id) -> DocMeta | absent
getDocMeta(docs, id) ==
    IF id \in IdsOf(docs) THEN Some(docs[IndexOf(docs, id)]) ELSE Null

\* add(meta) -> DocMeta | failure.  The id is the primary key, so an id that
\* is taken is a failure; so is a failed write of the backing file.
addDocMeta(docs, doc, writeOk) ==
    IF doc.id \in IdsOf(docs) \/ ~writeOk
    THEN [docs |-> docs, result |-> Null]
    ELSE [docs |-> Append(docs, doc), result |-> Some(doc)]

\* update(id, partial) -> DocMeta | absent
updateDocMeta(docs, id, partial) ==
    IF id \in IdsOf(docs)
    THEN LET k == IndexOf(docs, id)
             d == Merge(docs[k], partial)
         IN  [docs |-> [docs EXCEPT ![k] = d], result |-> Some(d)]
    ELSE [docs |-> docs, result |-> Null]

\* delete(id) -> boolean
deleteDocMeta(docs, id) ==
    IF id \in IdsOf(docs)
    THEN [docs |-> RemoveAt(docs, IndexOf(docs, id)), result |-> TRUE]
    ELSE [docs |-> docs, result |-> FALSE]

---------------------------------------------------------------------------
(* The response object of one request *)

\* A plain-text body.
Text(str) == [text |-> str]

\* The body res.json(list) sends for a list of records.
List(docs) == [list |-> docs]

\* A fresh response: nothing sent, status code 200 as Express presets it.
NewRes == [statusCode |-> 200, sent |-> FALSE, status |-> 0, body |-> [text |-> ""],
           sends |-> 0, threw |-> FALSE]

\* res.status(code)
SetStatus(r, code) == [r EXCEPT !.statusCode = code]

\* res.send(body) / res.json(body): the first call sends the response with
\* the status code set so far; a call on a response that was sent throws
\* (ERR_HTTP_HEADERS_SENT) and changes nothing the client sees.
Send(r, body) ==
    IF r.sent
    THEN [r EXCEPT !.sends = @ + 1, !.threw = TRUE]
    ELSE [r EXCEPT !.sent = TRUE, !.status = r.statusCode, !.body = body,
                   !.sends = @ + 1]

\* res.sendStatus(code)
SendStatus(r, code) == Send(SetStatus(r, code), Text("OK"))

\* What a handler leaves behind: the store, the response, the store methods it called.
Outcome(docs, r, calls) == [db |-> docs, res |-> r, dbCalls |-> calls]

---------------------------------------------------------------------------
(* The routes whose handlers run from request to response in one turn of  *)
(* the event loop apart from their one call of the store                  *)

\* typeof v
TypeOf(v) == v.type

\* app.post('/basic-ws-callback'): a body without data.blocks.content makes
\* Object.keys(...) throw before anything is sent.
basicWsCallback(docs, bodyOk) ==
    IF bodyOk
    THEN Outcome(docs, SendStatus(NewRes, 200), << >>)
    ELSE Outcome(docs, [NewRes EXCEPT !.threw = TRUE], << >>)

\* authPerm without its lookup: every room is granted.
authPerm_AlwaysRw(docs, yroom, yuserid) ==
    Outcome(docs,
            Send(NewRes, [yroom |-> yroom, yaccess |-> "rw", yuserid |-> yuserid]),
            << >>)

\* app.get('/auth/perm/:room/:userid').  The body is the object handed to
\* JSON.stringify.
authPerm(docs, yroom, yuserid) ==
    LET yaccess == IF getDocMeta(docs, yroom) = Null THEN "no-access" ELSE "rw"
    IN  Outcome(docs,
                Send(NewRes, [yroom |-> yroom, yaccess |-> yaccess, yuserid |-> yuserid]),
                <<"getDocMeta">>)

\* app.get('/api/docs')
listDocs(docs) ==
    Outcome(docs, Send(NewRes, List(getDocMetas(docs))), <<"getDocMetas">>)

\* createDoc without its test of the store's result.
createDoc_Always201(docs, newDoc, writeOk) ==
    LET a == addDocMeta(docs, newDoc, writeOk)
    IN  Outcome(a.docs, Send(SetStatus(NewRes, 201), newDoc), <<"addDocMeta">>)

\* app.post('/api/docs')
createDoc(docs, newDoc, writeOk) ==
    LET a == addDocMeta(docs, newDoc, writeOk)
    IN  IF a.result # Null
        THEN Outcome(a.docs, Send(SetStatus(NewRes, 201), a.result[1]), <<"addDocMeta">>)
        ELSE Outcome(a.docs, Send(SetStatus(NewRes, 500), Text("Failed to create document")),
                     <<"addDocMeta">>)

\* patchTitle without its typeof test: whatever the body holds is written.
patchTitle_NoTypeCheck(docs, id, title) ==
    LET u == updateDocMeta(docs, id, [title |-> title.val])
    IN  IF u.result # Null
        THEN Outcome(u.docs, Send(NewRes, u.result[1]), <<"updateDocMeta">>)
        ELSE Outcome(u.docs, Send(SetStatus(NewRes, 500), Text("Failed to update document")),
                     <<"updateDocMeta">>)

\* patchTitle handing the store a whole DocMeta built from the request
\* instead of the partial { title }.
patchTitle_WholeRecord(docs, id, title) ==
    IF TypeOf(title) # "string"
    THEN Outcome(docs, Send(SetStatus(NewRes, 400), Text("Missing title")), << >>)
    ELSE LET u == updateDocMeta(docs, id, [title |-> title.val, createdAt |-> "t0"])
         IN  IF u.result # Null
             THEN Outcome(u.docs, Send(NewRes, u.result[1]), <<"updateDocMeta">>)
             ELSE Outcome(u.docs, Send(SetStatus(NewRes, 500), Text("Failed to update document")),
                          <<"updateDocMeta">>)

\* app.patch('/api/docs/:id/title')
patchTitle(docs, id, title) ==
    IF TypeOf(title) # "string"
    THEN Outcome(docs, Send(SetStatus(NewRes, 400), Text("Missing title")), << >>)
    ELSE LET u == updateDocMeta(docs, id, [title |-> title.val])
         IN  IF u.result # Null
             THEN Outcome(u.docs, Send(NewRes, u.result[1]), <<"updateDocMeta">>)
             ELSE Outcome(u.docs, Send(SetStatus(NewRes, 500), Text("Failed to update document")),
                          <<"updateDocMeta">>)

\* deleteDoc without its 404 branch.
deleteDoc_NoNotFound(docs, docId) ==
    LET d == deleteDocMeta(docs, docId)
    IN  Outcome(d.docs, Send(NewRes, Text("Document removed")), <<"deleteDocMeta">>)

\* app.delete('/api/docs/:id'): the 404 branch does not return, so the
\* handler goes on to the final res.send.
deleteDoc(docs, docId) ==
    LET d  == deleteDocMeta(docs, docId)
        r1 == IF ~d.result
              THEN Send(SetStatus(NewRes, 404), Text("Document not found"))
              ELSE NewRes
    IN  Outcome(d.docs, Send(r1, Text("Document removed")), <<"deleteDocMeta">>)

---------------------------------------------------------------------------
(* app.get('/auth/token') *)

authPrivateKey == "AUTH_PRIVATE_KEY"

\* jwt.encodeJwt(key, payload): the payload, signed with the key.
encodeJwt(key, payload) == [alg |-> "ES384", payload |-> payload, signedWith |-> key]

\* tokenClaims with a factor of 60 dropped: a minute instead of an hour.
tokenClaims_Minute(now) == [iss |-> appName, exp |-> now + 1000 * 60, yuserid |-> "user1"]

\* The claims of the token, with Date.now() read as `now`.
tokenClaims(now) == [iss |-> appName, exp |-> now + HourMs, yuserid |-> "user1"]

\* The handler after its await: res.send(token).
authToken(docs, token) == Outcome(docs, Send(NewRes, token), << >>)

---------------------------------------------------------------------------
(* app.use('/ydoc/:room') *)

\* What the body of a /ydoc request can be: a multipart body that does not
\* parse, one that parses and has no `ydoc` file, one whose `ydoc` file is an
\* update Y.applyUpdateV2 accepts, and one whose `ydoc` file it throws on.
Uploads == {"malformed", "no-ydoc", "ydoc", "ydoc-undecodable"}

\* The rooms /ydoc requests name.
YdocRooms == {"doc1"}

\* No request: the handler is not running.
NoYdoc == [pc |-> "idle", room |-> "", upload |-> "", stage |-> "none",
           promise |-> "none", nextCalls |-> 0, status |-> 0, sends |-> 0,
           logged |-> FALSE]

\* The handler up to its await: promise.create starts form.parse and the
\* handler is suspended on the pending promise.
ydocHandlerStart(room, upload) ==
    [pc |-> "await", room |-> room, upload |-> upload, stage |-> "parse",
     promise |-> "pending", nextCalls |-> 0, status |-> 0, sends |-> 0,
     logged |-> FALSE]

\* next(err): Express's error path ends the request as a failure (500).
NextErr(r) == [r EXCEPT !.nextCalls = @ + 1, !.status = 500]

\* A promise settles once; resolve and reject on a settled promise do nothing.
Resolve(r) == IF r.promise = "pending" THEN [r EXCEPT !.promise = "fulfilled"] ELSE r

Reject(r) == IF r.promise = "pending" THEN [r EXCEPT !.promise = "rejected"] ELSE r

\* formParseCallback that rejects on a parse error without calling next(err).
formParseCallback_NoNext(r, err, hasYdoc) ==
    IF err
    THEN [Reject(r) EXCEPT !.stage = "none"]
    ELSE IF hasYdoc
         THEN [r EXCEPT !.stage = "read"]
         ELSE [r EXCEPT !.stage = "none"]

\* formParseCallback that resolves (with nothing) when there is no `ydoc` file.
formParseCallback_ResolveMissing(r, err, hasYdoc) ==
    IF err
    THEN [Reject(NextErr(r)) EXCEPT !.stage = "none"]
    ELSE IF hasYdoc
         THEN [r EXCEPT !.stage = "read"]
         ELSE [Resolve(r) EXCEPT !.stage = "none"]

\* The callback of form.parse(req, (err, _fields, files) => ...).
formParseCallback(r, err, hasYdoc) ==
    IF err
    THEN [Reject(NextErr(r)) EXCEPT !.stage = "none"]
    ELSE IF hasYdoc
         THEN [r EXCEPT !.stage = "read"]
         ELSE [r EXCEPT !.stage = "none"]

\* fs.readFile(file.filepath).then(resolve, reject)
readFileSettled(r, ok) ==
    [(IF ok THEN Resolve(r) ELSE Reject(r)) EXCEPT !.stage = "none"]

\* The handler after its await: a rejected promise makes the await throw; a
\* fulfilled one is decoded (which throws on bytes that are no update), the
\* block count is logged and 200 is sent.
ydocHandlerResume(r) ==
    IF r.promise = "rejected"
    THEN [r EXCEPT !.pc = "threw"]
    ELSE IF r.upload = "ydoc-undecodable"
         THEN [r EXCEPT !.pc = "threw"]
         ELSE LET sent == SendStatus(NewRes, 200)
              IN  [r EXCEPT !.pc = "done", !.logged = TRUE,
                            !.status = sent.status, !.sends = @ + sent.sends]

---------------------------------------------------------------------------
(* State *)

NoRes == [route |-> "none", req |-> [id |-> ""], status |-> 0, body |-> Text(""), sends |-> 0,
          threw |-> FALSE, dbCalls |-> << >>]

NoToken == [pending |-> FALSE, issuedAt |-> 0, token |-> encodeJwt(authPrivateKey, tokenClaims(0))]

Init ==
    /\ db = << >>
    /\ clock = 0
    /\ res = NoRes
    /\ pre = << >>
    /\ lastOp = [i \in Ids |-> "none"]
    /\ tokenReq = NoToken
    /\ ydoc = NoYdoc

\* A request was handled with outcome `out`: the response becomes res, the
\* store is what the handler left, and the histories are brought up to date.
Handled(route, req, out) ==
    /\ res' = [route |-> route, req |-> req, status |-> out.res.status,
               body |-> out.res.body, sends |-> out.res.sends,
               threw |-> out.res.threw, dbCalls |-> out.dbCalls]
    /\ pre' = db
    /\ db' = out.db
    /\ lastOp' = IF route = "create" /\ out.res.status = 201
                 THEN [lastOp EXCEPT ![req.id] = "created"]
                 ELSE IF route = "delete" /\ out.res.status = 200
                 THEN [lastOp EXCEPT ![req.id] = "deleted"]
                 ELSE lastOp

Tick ==
    /\ clock < MaxClock
    /\ clock' = clock + 1
    /\ UNCHANGED <<db, res, pre, lastOp, tokenReq, ydoc>>

BasicWsCallback ==
    \E bodyOk \in BOOLEAN :
        /\ Handled("basic-ws-callback", [bodyOk |-> bodyOk], basicWsCallback(db, bodyOk))
        /\ UNCHANGED <<clock, tokenReq, ydoc>>

AuthPerm ==
    \E room \in Ids, userid \in Users :
        /\ Handled("perm", [room |-> room, userid |-> userid], authPerm(db, room, userid))
        /\ UNCHANGED <<clock, tokenReq, ydoc>>

ListDocs ==
    /\ Handled("list", [id |-> ""], listDocs(db))
    /\ UNCHANGED <<clock, tokenReq, ydoc>>

CreateDoc ==
    \E newDoc \in DocMetas, writeOk \in BOOLEAN :
        /\ Handled("create", [id |-> newDoc.id, doc |-> newDoc], createDoc(db, newDoc, writeOk))
        /\ UNCHANGED <<clock, tokenReq, ydoc>>

PatchTitle ==
    \E id \in Ids, title \in TitleInputs :
        /\ Handled("patch", [id |-> id, title |-> title], patchTitle(db, id, title))
        /\ UNCHANGED <<clock, tokenReq, ydoc>>

DeleteDoc ==
    \E id \in Ids :
        /\ Handled("delete", [id |-> id], deleteDoc(db, id))
        /\ UNCHANGED <<clock, tokenReq, ydoc>>

\* /auth/token, up to its await: Date.now() is read and the signing starts.
AuthTokenStart ==
    /\ ~tokenReq.pending
    /\ tokenReq' = [pending |-> TRUE, issuedAt |-> clock,
                    token |-> encodeJwt(authPrivateKey, tokenClaims(clock))]
    /\ UNCHANGED <<db, clock, res, pre, lastOp, ydoc>>

\* /auth/token, after its await: the token is sent.
AuthTokenSend ==
    /\ tokenReq.pending
    /\ Handled("token", [issuedAt |-> tokenReq.issuedAt], authToken(db, tokenReq.token))
    /\ tokenReq' = NoToken
    /\ UNCHANGED <<clock, ydoc>>

\* A request to /ydoc/:room arrives; the slot holds one request from its
\* arrival to the end of its handler.
YdocRequest ==
    \E room \in YdocRooms, upload \in Uploads :
        /\ ydoc.pc \in {"idle", "done", "threw"}
        /\ ydoc' = ydocHandlerStart(room, upload)
        /\ UNCHANGED <<db, clock, res, pre, lastOp, tokenReq>>

\* formidable has read the body and calls back.
YdocFormParsed ==
    /\ ydoc.stage = "parse"
    /\ ydoc' = formParseCallback(ydoc, ydoc.upload = "malformed",
                                 ydoc.upload \in {"ydoc", "ydoc-undecodable"})
    /\ UNCHANGED <<db, clock, res, pre, lastOp, tokenReq>>

\* fs.readFile settles, with the file's bytes or with an error.
YdocFileRead ==
    \E ok \in BOOLEAN :
        /\ ydoc.stage = "read"
        /\ ydoc' = readFileSettled(ydoc, ok)
        /\ UNCHANGED <<db, clock, res, pre, lastOp, tokenReq>>

\* The promise has settled: the handler runs on from its await.
YdocResume ==
    /\ ydoc.pc = "await"
    /\ ydoc.promise \in {"fulfilled", "rejected"}
    /\ ydoc' = ydocHandlerResume(ydoc)
    /\ UNCHANGED <<db, clock, res, pre, lastOp, tokenReq>>

Next ==
    \/ Tick
    \/ BasicWsCallback
    \/ AuthTokenStart
    \/ AuthTokenSend
    \/ YdocRequest
    \/ YdocFormParsed
    \/ YdocFileRead
    \/ YdocResume
    \/ AuthPerm
    \/ ListDocs
    \/ CreateDoc
    \/ PatchTitle
    \/ DeleteDoc

Spec == Init /\ [][Next]_vars

\* The event loop runs every callback that is due and every continuation
\* whose promise has settled.
FairSpec ==
    Spec /\ WF_vars(YdocFormParsed) /\ WF_vars(YdocFileRead) /\ WF_vars(YdocResume)

---------------------------------------------------------------------------
(* Properties *)

Unique(docs) == \A i, j \in 1..Len(docs) : docs[i].id = docs[j].id => i = j

Count(docs, id) == Cardinality({i \in 1..Len(docs) : docs[i].id = id})

C3_BadTitleIs400 ==
    (res.route = "patch" /\ TypeOf(res.req.title) # "string") =>
        /\ res.status = 400
        /\ res.dbCalls = << >>
        /\ db = pre

\* A non-string title was sent for an id that exists.
C3_Witness ==
    /\ res.route = "patch"
    /\ TypeOf(res.req.title) = "number"
    /\ res.req.id \in IdsOf(pre)

\* C4: a PATCH with a string title, or a DELETE, for an id no DocMeta has
\* answers 404.
C4_UnknownIdIs404 ==
    (/\ res.route \in {"patch", "delete"}
     /\ res.route = "patch" => TypeOf(res.req.title) = "string"
     /\ res.req.id \notin IdsOf(pre))
        => res.status = 404

C6_PatchChangesTitleOnly ==
    (res.route = "patch" /\ res.status = 200) =>
        /\ res.req.id \in IdsOf(pre)
        /\ Len(db) = Len(pre)
        /\ \A i \in 1..Len(pre) :
               IF pre[i].id = res.req.id
               THEN /\ db[i] = [pre[i] EXCEPT !.title = res.req.title.val]
                    /\ res.body = db[i]
               ELSE db[i] = pre[i]

\* A title was changed in a store of two records, on a record created at t1.
C6_Witness ==
    /\ res.route = "patch"
    /\ res.status = 200
    /\ Len(pre) = 2
    /\ db # pre
    /\ res.body.createdAt = "t1"

\* C7: GET /auth/token answers 200 with a token whose claims are the
\* application's name as iss, the user id as yuserid and, as exp, the clock
\* value the handler read plus 3,600,000; the store is neither called nor
\* changed.
C7_TokenExpiry ==
    res.route = "token" =>
        /\ res.status = 200
        /\ res.body.payload.iss = "blocksuite-example"
        /\ res.body.payload.yuserid = "user1"
        /\ res.body.payload.exp = res.req.issuedAt + 3600000
        /\ res.dbCalls = << >>
        /\ db = pre

\* A token was sent that was issued at a clock value other than 0, with
\* records in the store.
C7_Witness ==
    /\ res.route = "token"
    /\ res.req.issuedAt > 0
    /\ db # << >>

\* The /ydoc request in flight is one whose body parsed and has no ydoc file.
NoYdocFile == ydoc.pc # "idle" /\ ydoc.upload = "no-ydoc"

\* Nothing has been answered for the /ydoc request, and its handler is
\* still suspended on a promise that is still pending.
Unanswered ==
    /\ ydoc.pc = "await"
    /\ ydoc.promise = "pending"
    /\ ydoc.status = 0
    /\ ydoc.sends = 0
    /\ ydoc.nextCalls = 0
    /\ ~ydoc.logged

C9_ParseErrorFails ==
    /\ [](  (ydoc.pc # "idle" /\ ydoc.upload = "malformed") =>
              /\ ydoc.sends = 0
              /\ ~ydoc.logged
              /\ ydoc.pc # "done"
              /\ IF ydoc.stage = "parse"
                 THEN ydoc.nextCalls = 0 /\ ydoc.status = 0
                 ELSE ydoc.nextCalls = 1 /\ ydoc.status = 500
                      /\ ydoc.promise = "rejected")
    /\ [][ydoc' # ydoc => db' = db]_vars

\* The handler of a request whose body failed to parse has ended, with
\* records in the store.
C9_Witness ==
    /\ ydoc.upload = "malformed"
    /\ ydoc.pc = "threw"
    /\ db # << >>

\* C10: no handler calls a sending method of its response more than once.
C10_AtMostOneSend == res.sends <= 1 /\ ydoc.sends <= 1

=============================================================================
